---- MODULE Spec2Model ----
(***************************************************************************)
(* Long-mode register file and REX prefix recognition of                   *)
(* src/src/cpu/longmode.rs.                                                *)
(*                                                                         *)
(* A u64/u32/u16/u8 value is a bit vector: a function from bit positions   *)
(* 0..w-1 (bit 0 least significant) to BOOLEAN, so that 64-bit values keep *)
(* their full width.  Register indices (usize) and prefix bytes are        *)
(* natural numbers.                                                        *)
(***************************************************************************)
EXTENDS Integers, Sequences, FiniteSets, TLC

VARIABLES registers, call, ret, steps, stream, rexOut, scanOut

vars == <<registers, call, ret, steps, stream, rexOut, scanOut>>

(* ---------------------------- bounds ----------------------------------- *)
MaxSteps == 3
MaxLen == 2

(* ------------------------ machine arithmetic --------------------------- *)
\* hexadecimal literal (most significant digit first) as a w-bit value
FromHex(digits, w) ==
  [k \in 0..(w - 1) |->
     LET n == Len(digits)
         d == k \div 4
     IN  IF d < n THEN (digits[n - d] \div (2 ^ (k % 4))) % 2 = 1 ELSE FALSE]

\* Rust `as` between unsigned widths: truncation or zero extension
AsUnsigned(v, w) == [k \in 0..(w - 1) |-> IF k \in DOMAIN v THEN v[k] ELSE FALSE]

BitAnd(a, b) == [k \in DOMAIN a |-> a[k] /\ b[k]]
BitOr(a, b) == [k \in DOMAIN a |-> a[k] \/ b[k]]
BitNot(a) == [k \in DOMAIN a |-> ~a[k]]
Shl(a, n) == [k \in DOMAIN a |-> IF k >= n THEN a[k - n] ELSE FALSE]
Shr(a, n) == [k \in DOMAIN a |-> IF (k + n) \in DOMAIN a THEN a[k + n] ELSE FALSE]

\* `&` on usize / u8 operands held as natural numbers
RECURSIVE NatAnd(_, _)
NatAnd(a, b) ==
  IF a = 0 \/ b = 0 THEN 0
  ELSE (a % 2) * (b % 2) + 2 * NatAnd(a \div 2, b \div 2)

Mask32 == FromHex(<<15, 15, 15, 15, 15, 15, 15, 15>>, 64)
Mask16 == FromHex(<<15, 15, 15, 15>>, 64)
Mask8 == FromHex(<<15, 15>>, 64)

(* --------------------------- Registers --------------------------------- *)
new == [regs |-> [i \in 0..15 |-> FromHex(<<0>>, 64)], rflags |-> FromHex(<<0>>, 64)]

\* variant: index reduced to the eight legacy registers
get_r64_low3(self, idx) == self.regs[NatAnd(idx, 7)]

get_r64(self, idx) == self.regs[NatAnd(idx, 15)]

\* variant: stores only the low 32 bits of the value
set_r64_trunc(self, idx, val) ==
  [self EXCEPT !.regs[NatAnd(idx, 15)] = BitAnd(val, Mask32)]

set_r64(self, idx, val) == [self EXCEPT !.regs[NatAnd(idx, 15)] = val]

get_r32(self, idx) == AsUnsigned(BitAnd(self.regs[NatAnd(idx, 15)], Mask32), 32)

\* variant: the value is sign-extended (`val as i32 as i64 as u64`)
set_r32_signext(self, idx, val) ==
  LET new_ == [k \in 0..63 |-> IF k < 32 THEN val[k] ELSE val[31]]
  IN  [self EXCEPT !.regs[NatAnd(idx, 15)] = new_]

\* variant: read-modify-write that keeps bits 32-63 of the slot
set_r32_preserve(self, idx, val) ==
  LET i == NatAnd(idx, 15)
      high == BitAnd(self.regs[i], BitNot(Mask32))
  IN  [self EXCEPT !.regs[i] = BitOr(high, BitAnd(AsUnsigned(val, 64), Mask32))]

set_r32(self, idx, val) ==
  LET new_ == BitAnd(AsUnsigned(val, 64), Mask32)
  IN  [self EXCEPT !.regs[NatAnd(idx, 15)] = new_]

get_r16(self, idx) == AsUnsigned(BitAnd(self.regs[NatAnd(idx, 15)], Mask16), 16)

\* variant: the merged value is stored one slot further on
set_r16_offby1(self, idx, val) ==
  LET i == NatAnd(idx, 15)
      high == BitAnd(self.regs[i], BitNot(Mask16))
  IN  [self EXCEPT !.regs[NatAnd(i + 1, 15)] = BitOr(high, BitAnd(AsUnsigned(val, 64), Mask16))]

\* variant: replaces the whole slot with the zero-extended value
set_r16_zext(self, idx, val) ==
  [self EXCEPT !.regs[NatAnd(idx, 15)] = BitAnd(AsUnsigned(val, 64), Mask16)]

set_r16(self, idx, val) ==
  LET i == NatAnd(idx, 15)
      high == BitAnd(self.regs[i], BitNot(Mask16))
  IN  [self EXCEPT !.regs[i] = BitOr(high, BitAnd(AsUnsigned(val, 64), Mask16))]

get_r8l(self, idx) == AsUnsigned(BitAnd(self.regs[NatAnd(idx, 15)], Mask8), 8)

set_r8l(self, idx, val) ==
  LET i == NatAnd(idx, 15)
      high == BitAnd(self.regs[i], BitNot(Mask8))
  IN  [self EXCEPT !.regs[i] = BitOr(high, BitAnd(AsUnsigned(val, 64), Mask8))]

\* variant: the slot is not shifted, so bits 0-7 are returned
get_r8h_noshift(self, idx) ==
  LET i == NatAnd(idx, 15)
  IN  AsUnsigned(BitAnd(self.regs[i], Mask8), 8)

get_r8h(self, idx) ==
  LET i == NatAnd(idx, 15)
  IN  AsUnsigned(BitAnd(Shr(self.regs[i], 8), Mask8), 8)

\* variant: the value is not shifted into bits 8-15
set_r8h_noshift(self, idx, val) ==
  LET i == NatAnd(idx, 15)
      low == BitAnd(self.regs[i], BitNot(Shl(Mask8, 8)))
      new_ == BitOr(low, BitAnd(AsUnsigned(val, 64), Mask8))
  IN  [self EXCEPT !.regs[i] = new_]

set_r8h(self, idx, val) ==
  LET i == NatAnd(idx, 15)
      low == BitAnd(self.regs[i], BitNot(Shl(Mask8, 8)))
      new_ == BitOr(low, Shl(BitAnd(AsUnsigned(val, 64), Mask8), 8))
  IN  [self EXCEPT !.regs[i] = new_]

\* tests::DummyCpu::exec_mov_demo, `mov dst, src`: read then write
mov_r64(self, dst, src) ==
  LET val == get_r64(self, src)
  IN  set_r64(self, dst, val)

(* ------------------------------ Rex ------------------------------------ *)
None == <<>>
Some(v) == <<v>>

\* variant: the range check excludes its upper end (0x40..0x4f)
from_byte_exclusive(b) ==
  IF 64 <= b /\ b < 79
  THEN Some([w |-> NatAnd(b, 8) # 0,
             r |-> NatAnd(b, 4) # 0,
             x |-> NatAnd(b, 2) # 0,
             b |-> NatAnd(b, 1) # 0])
  ELSE None

from_byte(b) ==
  IF 64 <= b /\ b <= 79
  THEN Some([w |-> NatAnd(b, 8) # 0,
             r |-> NatAnd(b, 4) # 0,
             x |-> NatAnd(b, 2) # 0,
             b |-> NatAnd(b, 1) # 0])
  ELSE None

\* variant: a leading operand-size override (0x66) is skipped before the test
parse_prefixes_skip66(s) ==
  LET pos0 == IF 0 < Len(s) /\ s[1] = 102 THEN 1 ELSE 0
      rex0 == None
      hit == pos0 < Len(s) /\ from_byte(s[pos0 + 1]) # None
  IN  IF hit
      THEN [rex |-> from_byte(s[pos0 + 1]), pos |-> pos0 + 1]
      ELSE [rex |-> rex0, pos |-> pos0]

parse_prefixes(s) ==
  LET pos0 == 0
      rex0 == None
      hit == pos0 < Len(s) /\ from_byte(s[pos0 + 1]) # None
  IN  IF hit
      THEN [rex |-> from_byte(s[pos0 + 1]), pos |-> pos0 + 1]
      ELSE [rex |-> rex0, pos |-> pos0]

(* ----------------------------- inputs ---------------------------------- *)
AllOnes64 == FromHex(<<15, 15, 15, 15, 15, 15, 15, 15, 15, 15, 15, 15, 15, 15, 15, 15>>, 64)
DemoValue == FromHex(<<1, 1, 2, 2, 3, 3, 4, 4, 5, 5, 6, 6, 7, 7, 8, 8>>, 64)
Zero64 == FromHex(<<0>>, 64)

Indices == {0, 1, 16, 17}
Vals64 == {AllOnes64, DemoValue}
Vals32 == {FromHex(<<0>>, 32), FromHex(<<13, 14, 10, 13, 11, 14, 14, 15>>, 32)}
Vals16 == {FromHex(<<0>>, 16), FromHex(<<11, 14, 14, 15>>, 16)}
Vals8 == {FromHex(<<0>>, 8), FromHex(<<10, 11>>, 8)}

Byte == 0..255
TailBytes == {0, 72, 102, 255}
RECURSIVE Tails(_)
Tails(n) == IF n = 0 THEN {<<>>} ELSE Tails(n - 1) \cup {Append(t, b) : t \in {u \in Tails(n - 1) : Len(u) = n - 1}, b \in TailBytes}
Streams == {<<>>} \cup {<<b>> \o t : b \in Byte, t \in Tails(MaxLen - 1)}

Unit == <<>>
NoCall == [op |-> "new", idx |-> 0, src |-> 0, val |-> Unit]

(* --------------------------- register spec ------------------------------ *)
Init ==
  /\ registers = new
  /\ call = NoCall
  /\ ret = Unit
  /\ steps = 0
  /\ stream = <<>>
  /\ rexOut = None
  /\ scanOut = None

SetR64 ==
  \E idx \in Indices, val \in Vals64 :
    /\ steps < MaxSteps
    /\ registers' = set_r64(registers, idx, val)
    /\ call' = [op |-> "set_r64", idx |-> idx, src |-> idx, val |-> val]
    /\ ret' = Unit
    /\ steps' = steps + 1
    /\ UNCHANGED <<stream, rexOut, scanOut>>

SetR32 ==
  \E idx \in Indices, val \in Vals32 :
    /\ steps < MaxSteps
    /\ registers' = set_r32(registers, idx, val)
    /\ call' = [op |-> "set_r32", idx |-> idx, src |-> idx, val |-> val]
    /\ ret' = Unit
    /\ steps' = steps + 1
    /\ UNCHANGED <<stream, rexOut, scanOut>>

SetR16 ==
  \E idx \in Indices, val \in Vals16 :
    /\ steps < MaxSteps
    /\ registers' = set_r16(registers, idx, val)
    /\ call' = [op |-> "set_r16", idx |-> idx, src |-> idx, val |-> val]
    /\ ret' = Unit
    /\ steps' = steps + 1
    /\ UNCHANGED <<stream, rexOut, scanOut>>

SetR8l ==
  \E idx \in Indices, val \in Vals8 :
    /\ steps < MaxSteps
    /\ registers' = set_r8l(registers, idx, val)
    /\ call' = [op |-> "set_r8l", idx |-> idx, src |-> idx, val |-> val]
    /\ ret' = Unit
    /\ steps' = steps + 1
    /\ UNCHANGED <<stream, rexOut, scanOut>>

SetR8h ==
  \E idx \in Indices, val \in Vals8 :
    /\ steps < MaxSteps
    /\ registers' = set_r8h(registers, idx, val)
    /\ call' = [op |-> "set_r8h", idx |-> idx, src |-> idx, val |-> val]
    /\ ret' = Unit
    /\ steps' = steps + 1
    /\ UNCHANGED <<stream, rexOut, scanOut>>

GetR64 ==
  \E idx \in Indices :
    /\ steps < MaxSteps
    /\ call' = [op |-> "get_r64", idx |-> idx, src |-> idx, val |-> Unit]
    /\ ret' = get_r64(registers, idx)
    /\ steps' = steps + 1
    /\ UNCHANGED <<registers, stream, rexOut, scanOut>>

GetR32 ==
  \E idx \in Indices :
    /\ steps < MaxSteps
    /\ call' = [op |-> "get_r32", idx |-> idx, src |-> idx, val |-> Unit]
    /\ ret' = get_r32(registers, idx)
    /\ steps' = steps + 1
    /\ UNCHANGED <<registers, stream, rexOut, scanOut>>

GetR16 ==
  \E idx \in Indices :
    /\ steps < MaxSteps
    /\ call' = [op |-> "get_r16", idx |-> idx, src |-> idx, val |-> Unit]
    /\ ret' = get_r16(registers, idx)
    /\ steps' = steps + 1
    /\ UNCHANGED <<registers, stream, rexOut, scanOut>>

GetR8l ==
  \E idx \in Indices :
    /\ steps < MaxSteps
    /\ call' = [op |-> "get_r8l", idx |-> idx, src |-> idx, val |-> Unit]
    /\ ret' = get_r8l(registers, idx)
    /\ steps' = steps + 1
    /\ UNCHANGED <<registers, stream, rexOut, scanOut>>

GetR8h ==
  \E idx \in Indices :
    /\ steps < MaxSteps
    /\ call' = [op |-> "get_r8h", idx |-> idx, src |-> idx, val |-> Unit]
    /\ ret' = get_r8h(registers, idx)
    /\ steps' = steps + 1
    /\ UNCHANGED <<registers, stream, rexOut, scanOut>>

MovR64 ==
  \E dst \in Indices, src \in Indices :
    /\ steps < MaxSteps
    /\ registers' = mov_r64(registers, dst, src)
    /\ call' = [op |-> "mov_r64", idx |-> dst, src |-> src, val |-> get_r64(registers, src)]
    /\ ret' = Unit
    /\ steps' = steps + 1
    /\ UNCHANGED <<stream, rexOut, scanOut>>

\* direct assignment of the public field rflags
SetRflags ==
  /\ steps < MaxSteps
  /\ registers' = [registers EXCEPT !.rflags = AllOnes64]
  /\ call' = [op |-> "set_rflags", idx |-> 0, src |-> 0, val |-> AllOnes64]
  /\ ret' = Unit
  /\ steps' = steps + 1
  /\ UNCHANGED <<stream, rexOut, scanOut>>

Next ==
  \/ SetR64 \/ SetR32 \/ SetR16 \/ SetR8l \/ SetR8h
  \/ GetR64 \/ GetR32 \/ GetR16 \/ GetR8l \/ GetR8h
  \/ MovR64 \/ SetRflags

Spec == Init /\ [][Next]_vars

(* ------------------- narrow writes only (no set_r64) -------------------- *)
NextNarrow == SetR32 \/ SetR16 \/ SetR8l \/ SetR8h

SpecNarrow == Init /\ [][NextNarrow]_vars

(* ---------------------------- prefix spec ------------------------------- *)
InitPrefix ==
  /\ registers = new
  /\ call = NoCall
  /\ ret = Unit
  /\ steps = 0
  /\ stream \in Streams
  /\ rexOut = None
  /\ scanOut = None

\* the decoder applies Rex::from_byte to a byte of the stream
FromByte ==
  \E k \in DOMAIN stream :
    /\ rexOut' = Some([b |-> stream[k], res |-> from_byte(stream[k])])
    /\ UNCHANGED <<registers, call, ret, steps, stream, scanOut>>

\* the decoder scans the stream at its cursor
ParsePrefixes ==
  /\ scanOut' = Some(parse_prefixes(stream))
  /\ UNCHANGED <<registers, call, ret, steps, stream, rexOut>>

NextPrefix == FromByte \/ ParsePrefixes

SpecPrefix == InitPrefix /\ [][NextPrefix]_vars

(* ============================ properties ================================ *)
\* value of a narrow (at most 16-bit) bit vector as a natural number
RECURSIVE NatOf(_, _)
NatOf(v, k) == IF k \notin DOMAIN v THEN 0 ELSE (IF v[k] THEN 1 ELSE 0) + 2 * NatOf(v, k + 1)
ToNat(v) == NatOf(v, 0)

\* bits lo..hi of a taken as they stand, every other bit taken from b
Splice(a, lo, hi, b) == [k \in 0..63 |-> IF lo <= k /\ k <= hi THEN a[k - lo] ELSE b[k]]

\* C1: after set_r32(i, v), get_r64(i) is v zero-extended: bits 0-31 are v
\* and bits 32-63 are all 0, whatever the slot held before.
C1_ZeroExtend ==
  call.op = "set_r32" =>
    LET t == get_r64(registers, call.idx)
    IN  \A k \in 0..63 : t[k] = (IF k < 32 THEN call.val[k] ELSE FALSE)

\* the slot held all-ones in its upper half, then a 32-bit write cleared it
C1_Witness ==
  /\ call.op = "set_r32"
  /\ call.val = FromHex(<<13, 14, 10, 13, 11, 14, 14, 15>>, 32)
  /\ get_r64(registers, call.idx) = FromHex(<<13, 14, 10, 13, 11, 14, 14, 15>>, 64)
  /\ registers.rflags = AllOnes64
  /\ steps = 3

C2_Step ==
  call'.op = "set_r16" =>
    LET s == get_r64(registers, call'.idx)
        t == get_r64(registers', call'.idx)
        v == call'.val
    IN  /\ \A k \in 16..63 : t[k] = s[k]
        /\ \A k \in 0..15 : t[k] = v[k]
        /\ (s = AllOnes64 /\ v = FromHex(<<0>>, 16)) =>
             t = FromHex(<<15, 15, 15, 15, 15, 15, 15, 15, 15, 15, 15, 15, 0, 0, 0, 0>>, 64)

\* C2: set_r16(i, v) leaves bits 16-63 of the slot as they were and sets
\* bits 0-15 to v; all-ones then v = 0 gives 0xFFFFFFFFFFFF0000.
C2_Preserve16 == [][C2_Step]_vars

C2_Witness ==
  /\ call.op = "set_r16"
  /\ call.val = FromHex(<<0>>, 16)
  /\ get_r64(registers, call.idx) =
       FromHex(<<15, 15, 15, 15, 15, 15, 15, 15, 15, 15, 15, 15, 0, 0, 0, 0>>, 64)

C3_Step ==
  LET s == get_r64(registers, call'.idx)
      t == get_r64(registers', call'.idx)
      v == call'.val
  IN  /\ call'.op = "set_r8l" =>
           /\ t = Splice(v, 0, 7, s)
           /\ (s = AllOnes64 /\ v = FromHex(<<0>>, 8)) =>
                t = FromHex(<<15, 15, 15, 15, 15, 15, 15, 15, 15, 15, 15, 15, 15, 15, 0, 0>>, 64)
      /\ call'.op = "set_r8h" =>
           /\ t = Splice(v, 8, 15, s)
           /\ (s = AllOnes64 /\ v = FromHex(<<0>>, 8)) =>
                t = FromHex(<<15, 15, 15, 15, 15, 15, 15, 15, 15, 15, 15, 15, 0, 0, 15, 15>>, 64)

\* C3: set_r8l(i, v) changes only bits 0-7 of the slot (to v); set_r8h(i, v)
\* changes only bits 8-15 (to v); all other bits keep their prior value.
C3_Preserve8 == [][C3_Step]_vars

C3_Witness ==
  /\ call.op = "set_r8h"
  /\ call.val = FromHex(<<0>>, 8)
  /\ get_r64(registers, call.idx) =
       FromHex(<<15, 15, 15, 15, 15, 15, 15, 15, 15, 15, 15, 15, 0, 0, 15, 15>>, 64)

C4_Step ==
  /\ call'.op = "set_r64" => get_r64(registers', call'.idx) = call'.val
  /\ (call'.op = "mov_r64" /\ call'.idx % 16 # call'.src % 16) =>
       LET v == get_r64(registers, call'.src)
       IN  /\ get_r64(registers', call'.idx) = v
           /\ get_r64(registers', call'.src) = v

\* C4: set_r64(i, v) then get_r64(i) returns v; copying with
\* set_r64(j, get_r64(i)), j distinct from i modulo 16, makes get_r64(j)
\* equal v while get_r64(i) still returns v.
C4_RoundTrip == [][C4_Step]_vars

\* the end-to-end run: 0x1122334455667788 in register 0, copied to register 1
C4_Witness ==
  /\ call.op = "mov_r64"
  /\ call.idx = 1
  /\ call.src = 0
  /\ get_r64(registers, 0) = DemoValue
  /\ get_r64(registers, 1) = DemoValue

ProbeIndices == {0, 1, 8, 15, 16, 17, 24, 31}

\* C5: every accessor accepts any index and acts on slot (index mod 16):
\* index i and index i+16 denote the same slot for every width class.
C5_Aliasing ==
  /\ \A i \in ProbeIndices :
       /\ get_r64(registers, i) = registers.regs[i % 16]
       /\ get_r64(registers, i + 16) = get_r64(registers, i)
  /\ \A d \in {0, 16} :
       LET j == IF call.idx >= 16 THEN call.idx - d ELSE call.idx + d
       IN  /\ call.op = "set_r64" => get_r64(registers, j) = call.val
           /\ call.op = "set_r32" => get_r32(registers, j) = call.val
           /\ call.op = "set_r16" => get_r16(registers, j) = call.val
           /\ call.op = "set_r8l" => get_r8l(registers, j) = call.val
           /\ call.op = "set_r8h" => get_r8h(registers, j) = call.val
           /\ call.op = "get_r64" => get_r64(registers, j) = ret
           /\ call.op = "get_r32" => get_r32(registers, j) = ret
           /\ call.op = "get_r16" => get_r16(registers, j) = ret
           /\ call.op = "get_r8l" => get_r8l(registers, j) = ret
           /\ call.op = "get_r8h" => get_r8h(registers, j) = ret

\* a 16-bit write at index 17 read back through index 1
C5_Witness ==
  /\ call.op = "set_r16"
  /\ call.idx = 17
  /\ get_r16(registers, 1) = FromHex(<<11, 14, 14, 15>>, 16)
  /\ get_r64(registers, 1) # Zero64
  /\ get_r64(registers, 0) = Zero64

RexOfBits(n) ==
  [w |-> (n \div 8) % 2 = 1, r |-> (n \div 4) % 2 = 1,
   x |-> (n \div 2) % 2 = 1, b |-> n % 2 = 1]

\* C6: Rex::from_byte returns a value exactly for bytes 0x40..=0x4f, with
\* w, r, x, b equal to bits 3, 2, 1, 0 of the byte, and absence otherwise.
C6_FromByte ==
  rexOut # None =>
    LET byte == rexOut[1].b
        res == rexOut[1].res
    IN  /\ (res # None) <=> (64 <= byte /\ byte <= 79)
        /\ res # None => (Len(res) = 1 /\ res[1] = RexOfBits(byte % 16))
        /\ byte = 72 => res = <<[w |-> TRUE, r |-> FALSE, x |-> FALSE, b |-> FALSE]>>
        /\ byte = 79 => res = <<[w |-> TRUE, r |-> TRUE, x |-> TRUE, b |-> TRUE]>>
        /\ byte = 57 => res = <<>>

C6_Witness ==
  rexOut = <<[b |-> 79, res |-> <<[w |-> TRUE, r |-> TRUE, x |-> TRUE, b |-> TRUE]>>]>>

\* C7: parse_prefixes returns (Rex::from_byte(first byte), 1) exactly when the
\* sequence is non-empty and its first byte is in 0x40..=0x4f, and (absent, 0)
\* otherwise; the result depends on the first byte only.
C7_ParsePrefixes ==
  scanOut # None =>
    LET o == scanOut[1]
    IN  /\ o.pos \in {0, 1}
        /\ IF stream # <<>> /\ 64 <= stream[1] /\ stream[1] <= 79
           THEN o = [rex |-> <<RexOfBits(stream[1] % 16)>>, pos |-> 1]
           ELSE o = [rex |-> <<>>, pos |-> 0]
        /\ stream # <<>> =>
             \A t \in Tails(MaxLen - 1) : parse_prefixes(<<stream[1]>> \o t) = o

\* an extension byte behind an operand-size override is not recognised
C7_Witness ==
  /\ stream = <<102, 72>>
  /\ scanOut = <<[rex |-> <<>>, pos |-> 0]>>

SlotProbe == {0, 17}

\* C8: the narrow reads are views of the same slot: get_r32, get_r16 and
\* get_r8l are the low 32, 16 and 8 bits of get_r64, get_r8h is bits 8-15,
\* and get_r16 = 256 * get_r8h + get_r8l.
C8_Views ==
  /\ \A i \in SlotProbe :
       LET x == get_r64(registers, i)
       IN  /\ get_r32(registers, i) = [k \in 0..31 |-> x[k]]
           /\ get_r16(registers, i) = [k \in 0..15 |-> x[k]]
           /\ get_r8l(registers, i) = [k \in 0..7 |-> x[k]]
           /\ get_r8h(registers, i) = [k \in 0..7 |-> x[k + 8]]
           /\ ToNat(get_r16(registers, i)) =
                256 * ToNat(get_r8h(registers, i)) + ToNat(get_r8l(registers, i))
  /\ LET x == get_r64(registers, call.idx)
     IN  /\ call.op = "get_r32" => ret = [k \in 0..31 |-> x[k]]
         /\ call.op = "get_r16" => ret = [k \in 0..15 |-> x[k]]
         /\ call.op = "get_r8l" => ret = [k \in 0..7 |-> x[k]]
         /\ call.op = "get_r8h" => ret = [k \in 0..7 |-> x[k + 8]]

\* the high byte 0xbe of 0xdeadbeef read through get_r8h
C8_Witness ==
  /\ call.op = "get_r8h"
  /\ ToNat(ret) = 190
  /\ ToNat(get_r8l(registers, call.idx)) = 239
  /\ ToNat(get_r16(registers, call.idx)) = 48879

WriteOps == {"set_r64", "set_r32", "set_r16", "set_r8l", "set_r8h", "mov_r64"}
ReadOps == {"get_r64", "get_r32", "get_r16", "get_r8l", "get_r8h"}

C9_Step ==
  /\ call'.op \in WriteOps =>
       /\ \A s \in 0..15 : s # call'.idx % 16 => registers'.regs[s] = registers.regs[s]
       /\ registers'.rflags = registers.rflags
  /\ call'.op \in ReadOps => registers' = registers

\* C9: a write accessor called with index i changes at most slot (i mod 16);
\* the other 15 slots and rflags are unchanged; a read accessor changes nothing.
C9_Frame == [][C9_Step]_vars

C9_Witness ==
  /\ call.op = "set_r16"
  /\ call.idx = 16
  /\ registers.rflags = AllOnes64
  /\ registers.regs[1] = DemoValue
  /\ ToNat(get_r16(registers, 0)) = 48879

\* C10: a new register file is all zero, and after any sequence of set_r32,
\* set_r16, set_r8l and set_r8h calls every slot has bits 32-63 all zero.
C10_UpperZero ==
  /\ steps = 0 =>
       /\ \A i \in 0..15 : \A k \in 0..63 : ~registers.regs[i][k]
       /\ \A k \in 0..63 : ~registers.rflags[k]
  /\ \A i \in 0..15 : \A k \in 32..63 : ~registers.regs[i][k]

\* 0xdeadbeef written by set_r32, its bits 8-15 then replaced by set_r8h
C10_Witness ==
  /\ call.op = "set_r8h"
  /\ steps = 2
  /\ get_r64(registers, call.idx) = FromHex(<<13, 14, 10, 13, 10, 11, 14, 15>>, 64)

====
